---- MODULE Spec2Model ----
(***************************************************************************)
(* Word of the Day SMS service (src/word_of_day.py).                       *)
(*                                                                         *)
(* Text is a sequence of one-character strings.  The pipeline of main() is *)
(* a state machine over pc; get_word_of_the_day, format_sms_message and    *)
(* send_sms are its steps.  Three specifications share the actions:        *)
(*   Spec         the whole run of main() from the environment variables,  *)
(*   SpecExtract  get_word_of_the_day over a family of feed entries,       *)
(*   SpecFormat   format_sms_message over a family of word records.        *)
(***************************************************************************)
EXTENDS Integers, Sequences, FiniteSets, TLC

VARIABLES pc, env, phone_number, feed, word_data, message, fmt, sent, error, steps

vars == <<pc, env, phone_number, feed, word_data, message, fmt, sent, error, steps>>

----------------------------------------------------------------------------
(* Characters and Python's string primitives                               *)

LowerAlpha == <<"a","b","c","d","e","f","g","h","i","j","k","l","m",
                "n","o","p","q","r","s","t","u","v","w","x","y","z">>

UpperAlpha == <<"A","B","C","D","E","F","G","H","I","J","K","L","M",
                "N","O","P","Q","R","S","T","U","V","W","X","Y","Z">>

Digits == {"0","1","2","3","4","5","6","7","8","9"}

LowerSet == {LowerAlpha[i] : i \in 1..26}

UpperSet == {UpperAlpha[i] : i \in 1..26}

IsLower(c) == c \in LowerSet

IsUpper(c) == c \in UpperSet

ToUpper == [c \in LowerSet |-> UpperAlpha[CHOOSE i \in 1..26 : LowerAlpha[i] = c]]

ToLower == [c \in UpperSet |-> LowerAlpha[CHOOSE i \in 1..26 : UpperAlpha[i] = c]]

\* str.upper() / str.lower() on one character
UpperChar(c) == IF IsLower(c) THEN ToUpper[c] ELSE c

LowerChar(c) == IF IsUpper(c) THEN ToLower[c] ELSE c

Upper(s) == [i \in 1..Len(s) |-> UpperChar(s[i])]

Lower(s) == [i \in 1..Len(s) |-> LowerChar(s[i])]

\* \s of the re module and the characters str.strip() removes
IsSpace(c) == c \in {" ", "\n", "\t", "\r"}

\* \w of the re module
IsWordChar(c) == IsLower(c) \/ IsUpper(c) \/ c \in Digits \/ c = "_"

\* s[i:] with i a 1-based first index
From(s, i) == SubSeq(s, i, Len(s))

\* s[:k] of Python, k any integer: a negative k counts from the end
SliceTo(s, k) ==
    IF k >= 0 THEN SubSeq(s, 1, IF k < Len(s) THEN k ELSE Len(s))
    ELSE SubSeq(s, 1, IF Len(s) + k > 0 THEN Len(s) + k ELSE 0)

\* s.startswith(t) read at 1-based position i
MatchAt(s, i, t) ==
    /\ i >= 1
    /\ i + Len(t) - 1 <= Len(s)
    /\ \A k \in 1..Len(t) : s[i + k - 1] = t[k]

\* the same under re.IGNORECASE
MatchAtNoCase(s, i, t) ==
    /\ i >= 1
    /\ i + Len(t) - 1 <= Len(s)
    /\ \A k \in 1..Len(t) : LowerChar(s[i + k - 1]) = LowerChar(t[k])

\* t in s
Contains(s, t) == \E i \in 1..(Len(s) - Len(t) + 1) : MatchAt(s, i, t)

\* first index >= i whose character satisfies the test, Len(s)+1 when none
RECURSIVE SkipSpaces(_, _)
SkipSpaces(s, i) == IF i <= Len(s) /\ IsSpace(s[i]) THEN SkipSpaces(s, i + 1) ELSE i

RECURSIVE FindChar(_, _, _)
FindChar(s, i, c) == IF i <= Len(s) /\ s[i] # c THEN FindChar(s, i + 1, c) ELSE i

RECURSIVE SkipWordChars(_, _)
SkipWordChars(s, i) == IF i <= Len(s) /\ IsWordChar(s[i]) THEN SkipWordChars(s, i + 1) ELSE i

\* str.strip()
RECURSIVE LStrip(_)
LStrip(s) == IF s # <<>> /\ IsSpace(s[1]) THEN LStrip(Tail(s)) ELSE s

RECURSIVE RStrip(_)
RStrip(s) == IF s # <<>> /\ IsSpace(s[Len(s)]) THEN RStrip(SubSeq(s, 1, Len(s) - 1)) ELSE s

Strip(s) == RStrip(LStrip(s))

\* str.rstrip('.')
RECURSIVE RStripDots(_)
RStripDots(s) == IF s # <<>> /\ s[Len(s)] = "." THEN RStripDots(SubSeq(s, 1, Len(s) - 1)) ELSE s

----------------------------------------------------------------------------
(* format_sms_message                                                      *)

DefCap == 120

MsgCap == 300

Header == <<"W","o","r","d"," ","o","f"," ","t","h","e"," ","D","a","y",":"," ">>

BlankLine == <<"\n", "\n">>

Ellipsis == <<".", ".", ".">>

\* mutant: the parentheses are written even without a part of speech
PosPrefix_Always(pos) == <<"(">> \o pos \o <<")", " ">>

PosPrefix(pos) == IF pos # <<>> THEN <<"(">> \o pos \o <<")", " ">> ELSE <<>>

\* message after lines 99-102: the header and the optional part of speech
MessageHead(wd) == Header \o Upper(wd.word) \o BlankLine \o PosPrefix(wd.part_of_speech)

MaxDefLen(wd) == DefCap - Len(MessageHead(wd))

\* lines 105-107: the definition as it is inserted
Truncate(definition, max_def_len) ==
    IF Len(definition) > max_def_len
    THEN SliceTo(definition, max_def_len - 3) \o Ellipsis
    ELSE definition

\* mutant: the overall cap compared with <= instead of <
ExampleFits_Le(msg, example) == example # <<>> /\ Len(msg) + Len(example) <= MsgCap

\* lines 111-113
ExampleFits(msg, example) == example # <<>> /\ Len(msg) + Len(example) < MsgCap

\* the locals of format_sms_message at its return
format_sms_message(wd) ==
    LET head == MessageHead(wd)
        max_def_len == MaxDefLen(wd)
        definition == Truncate(wd.definition, max_def_len)
        body == head \o definition
        msg == IF ExampleFits(body, wd.example)
               THEN body \o BlankLine \o wd.example
               ELSE body
    IN [message |-> msg, max_def_len |-> max_def_len, definition |-> definition]

----------------------------------------------------------------------------
(* The regular expressions of get_word_of_the_day.  An optional result is  *)
(* a sequence of length 0 (no match) or 1 (the captured group).            *)

NoMatch == <<>>

Some(x) == <<x>>

Min(S) == CHOOSE x \in S : \A y \in S : x <= y

\* first index >= i at which t occurs in s, Len(s)+1 when it does not
RECURSIVE FindSub(_, _, _)
FindSub(s, i, t) ==
    IF i > Len(s) THEN Len(s) + 1
    ELSE IF MatchAt(s, i, t) THEN i
    ELSE FindSub(s, i + 1, t)

OpenP == <<"<", "p", ">">>

CloseP == <<"<", "/", "p", ">">>

OpenEm == <<"<", "e", "m", ">">>

CloseEm == <<"<", "/", "e", "m", ">">>

\* line 36 anchored at i:  \\[^\\]+\\[^<]*<em>(\w+)</em>
PosGroupAt(d, i) ==
    IF i <= Len(d) /\ d[i] = "\\"
    THEN LET j == FindChar(d, i + 1, "\\")
         IN IF j <= Len(d) /\ j > i + 1
            THEN LET k == FindChar(d, j + 1, "<")
                     m == SkipWordChars(d, k + 4)
                 IN IF MatchAt(d, k, OpenEm) /\ m > k + 4 /\ MatchAt(d, m, CloseEm)
                    THEN Some(SubSeq(d, k + 4, m - 1))
                    ELSE NoMatch
            ELSE NoMatch
    ELSE NoMatch

\* re.search: the leftmost position that matches
PosSearch(d) ==
    LET starts == {i \in 1..Len(d) : PosGroupAt(d, i) # NoMatch}
    IN IF starts = {} THEN NoMatch ELSE PosGroupAt(d, Min(starts))

\* (?:<[^>]+>[^<]*)*?</p> read at q, the first "<" after the leading text:
\* the index of the closing </p>, 0 when the attempt fails
RECURSIVE LazyTags(_, _)
LazyTags(d, q) ==
    IF q > Len(d) THEN 0
    ELSE IF MatchAtNoCase(d, q, CloseP) THEN q
    ELSE IF q + 1 <= Len(d) /\ d[q + 1] # ">"
         THEN LET r == FindChar(d, q + 2, ">")
              IN IF r <= Len(d) THEN LazyTags(d, FindChar(d, r + 1, "<")) ELSE 0
         ELSE 0

\* lines 42-46 anchored at i:
\*   <p>\s*<em>WORD</em>\s+([^<]+(?:<[^>]+>[^<]*)*?)</p>   with re.IGNORECASE
DefGroupAt(d, word, i) ==
    LET a == SkipSpaces(d, i + 3)
        b == a + 4 + Len(word)
        c == b + 5
        e == SkipSpaces(d, c)
        \* \s+ is greedy and gives one blank back when no text follows it
        g == IF e <= Len(d) /\ d[e] # "<" THEN e
             ELSE IF e - c >= 2 THEN e - 1 ELSE 0
    IN IF /\ MatchAtNoCase(d, i, OpenP)
          /\ MatchAtNoCase(d, a, OpenEm)
          /\ MatchAtNoCase(d, a + 4, word)
          /\ MatchAtNoCase(d, b, CloseEm)
          /\ e > c
          /\ g > 0
       THEN LET z == LazyTags(d, FindChar(d, g + 1, "<"))
            IN IF z > 0 THEN Some(SubSeq(d, g, z - 1)) ELSE NoMatch
       ELSE NoMatch

DefSearch(d, word) ==
    LET starts == {i \in 1..Len(d) : DefGroupAt(d, word, i) # NoMatch}
    IN IF starts = {} THEN NoMatch ELSE DefGroupAt(d, word, Min(starts))

\* re.sub(r'<[^>]+>', '', s)
RECURSIVE StripTagsFrom(_, _)
StripTagsFrom(s, i) ==
    IF i > Len(s) THEN <<>>
    ELSE IF /\ s[i] = "<"
            /\ i + 1 <= Len(s)
            /\ s[i + 1] # ">"
            /\ FindChar(s, i + 2, ">") <= Len(s)
         THEN StripTagsFrom(s, FindChar(s, i + 2, ">") + 1)
         ELSE <<s[i]>> \o StripTagsFrom(s, i + 1)

StripTags(s) == StripTagsFrom(s, 1)

\* re.findall(r'<p>(.*?)</p>', description, re.DOTALL)
RECURSIVE ParagraphsFrom(_, _)
ParagraphsFrom(d, i) ==
    IF i > Len(d) THEN <<>>
    ELSE IF MatchAt(d, i, OpenP) /\ FindSub(d, i + 3, CloseP) <= Len(d)
         THEN LET j == FindSub(d, i + 3, CloseP)
              IN <<SubSeq(d, i + 3, j - 1)>> \o ParagraphsFrom(d, j + 4)
         ELSE ParagraphsFrom(d, i + 1)

Paragraphs(d) == ParagraphsFrom(d, 1)

\* line 72 anchored at i:  //\s*([^<]+)
ExampleGroupAt(d, i) ==
    LET e == SkipSpaces(d, i + 2)
        g == IF e <= Len(d) /\ d[e] # "<" THEN e
             ELSE IF e > i + 2 THEN e - 1 ELSE 0
    IN IF MatchAt(d, i, <<"/", "/">>) /\ g > 0
       THEN Some(SubSeq(d, g, FindChar(d, g, "<") - 1))
       ELSE NoMatch

ExampleSearch(d) ==
    LET starts == {i \in 1..Len(d) : ExampleGroupAt(d, i) # NoMatch}
    IN IF starts = {} THEN NoMatch ELSE ExampleGroupAt(d, Min(starts))

----------------------------------------------------------------------------
(* html.unescape, for named character references.  The table holds the     *)
(* references that can be spelled with the characters of the modelled      *)
(* feeds; numeric references (&#60;) need "#", which no modelled feed has. *)

EntityNames == { <<"l","t",";">>, <<"l","t">>, <<"g","t",";">>, <<"g","t">>,
                 <<"a","m","p",";">>, <<"a","m","p">> }

EntityChar(name) ==
    IF name[1] = "l" THEN <<"<">> ELSE IF name[1] = "g" THEN <<">">> ELSE <<"&">>

\* [^\t\n\f <&#;]
IsNameChar(c) == c \notin {"\t", "\n", "\f", " ", "<", "&", "#", ";"}

\* end of [^\t\n\f <&#;]{1,32} read at i, at most `left` characters
RECURSIVE NameEnd(_, _, _)
NameEnd(s, i, left) ==
    IF left > 0 /\ i <= Len(s) /\ IsNameChar(s[i]) THEN NameEnd(s, i + 1, left - 1) ELSE i

\* html._replace_charref: the whole reference, else its longest known prefix
ReplaceCharref(ref) ==
    IF ref \in EntityNames THEN EntityChar(ref)
    ELSE LET known == {x \in 2..(Len(ref) - 1) : SubSeq(ref, 1, x) \in EntityNames}
         IN IF known = {} THEN <<"&">> \o ref
            ELSE LET x == CHOOSE y \in known : \A z \in known : z <= y
                 IN EntityChar(SubSeq(ref, 1, x)) \o From(ref, x + 1)

RECURSIVE UnescapeFrom(_, _)
UnescapeFrom(s, i) ==
    IF i > Len(s) THEN <<>>
    ELSE IF s[i] = "&" /\ NameEnd(s, i + 1, 32) > i + 1
         THEN LET n == NameEnd(s, i + 1, 32)
                  t == IF n <= Len(s) /\ s[n] = ";" THEN n + 1 ELSE n
              IN ReplaceCharref(SubSeq(s, i + 1, t - 1)) \o UnescapeFrom(s, t)
         ELSE <<s[i]>> \o UnescapeFrom(s, i + 1)

Unescape(s) == UnescapeFrom(s, 1)

----------------------------------------------------------------------------
(* get_word_of_the_day                                                     *)

MinParagraphLen == 30

SeeTheEntry == <<"S","e","e"," ","t","h","e"," ","e","n","t","r","y">>

ExamplesLabel == <<"E","x","a","m","p","l","e","s",":">>

\* lines 49-50, 59-60, 75-76
Clean(s) == Strip(Unescape(StripTags(s)))

\* lines 52-53
Capitalize(s) == IF s # <<>> THEN <<UpperChar(s[1])>> \o Tail(s) ELSE s

\* lines 62-67
IsDefinitionLike(clean_p, word) ==
    /\ clean_p # <<>>
    /\ ~ MatchAt(clean_p, 1, <<"/", "/">>)
    /\ ~ Contains(clean_p, SeeTheEntry)
    /\ ~ Contains(clean_p, ExamplesLabel)
    /\ Contains(Lower(clean_p), Lower(word))
    /\ Len(clean_p) > MinParagraphLen

\* mutant: the loop does not break and keeps the last definition-like paragraph
FallbackDefinition_Last(d, word) ==
    LET ps == Paragraphs(d)
        good == {k \in 1..Len(ps) : IsDefinitionLike(Clean(ps[k]), word)}
    IN IF good = {} THEN <<>>
       ELSE Clean(ps[CHOOSE k \in good : \A j \in good : j <= k])

\* lines 56-69: the first definition-like paragraph, else ""
FallbackDefinition(d, word) ==
    LET ps == Paragraphs(d)
        good == {k \in 1..Len(ps) : IsDefinitionLike(Clean(ps[k]), word)}
    IN IF good = {} THEN <<>> ELSE Clean(ps[Min(good)])

\* lines 42-69
ExtractDefinition(d, word) ==
    LET def_match == DefSearch(d, word)
    IN IF def_match # NoMatch
       THEN Capitalize(Clean(def_match[1]))
       ELSE FallbackDefinition(d, word)

\* lines 36-37
ExtractPartOfSpeech(d) ==
    LET pos_match == PosSearch(d)
    IN IF pos_match # NoMatch THEN Strip(pos_match[1]) ELSE <<>>

\* mutant: only one trailing period is removed before the period is added
ExtractExample_OneDot(d) ==
    LET example_match == ExampleSearch(d)
        c == IF example_match # NoMatch THEN Clean(example_match[1]) ELSE <<>>
    IN IF example_match # NoMatch
       THEN <<"\"">> \o (IF c # <<>> /\ c[Len(c)] = "." THEN SubSeq(c, 1, Len(c) - 1) ELSE c)
                \o <<".", "\"">>
       ELSE <<>>

\* lines 72-81
ExtractExample(d) ==
    LET example_match == ExampleSearch(d)
    IN IF example_match # NoMatch
       THEN <<"\"">> \o RStripDots(Clean(example_match[1])) \o <<".", "\"">>
       ELSE <<>>

\* mutant: the title is used without .strip()
ExtractEntry_NoStrip(entry) ==
    [word |-> entry.title,
     part_of_speech |-> ExtractPartOfSpeech(entry.description),
     definition |-> ExtractDefinition(entry.description, entry.title),
     example |-> ExtractExample(entry.description)]

\* lines 26-88, for the first entry of the feed
ExtractEntry(entry) ==
    LET word == Strip(entry.title)
    IN [word |-> word,
        part_of_speech |-> ExtractPartOfSpeech(entry.description),
        definition |-> ExtractDefinition(entry.description, word),
        example |-> ExtractExample(entry.description)]

\* The outcome of the call: the record, or the exception that leaves it.
\* feed.entries is a sequence of entries; an entry's title and description
\* are optional (<<>> absent, <<text>> present): reading an element the feed
\* did not carry (entry.title, entry.description) raises AttributeError.
get_word_of_the_day(entries) ==
    IF entries = <<>>
    THEN [raised |-> "Exception", value |-> <<>>]
    ELSE IF entries[1].title = <<>> \/ entries[1].description = <<>>
    THEN [raised |-> "AttributeError", value |-> <<>>]
    ELSE [raised |-> "none",
          value |-> Some(ExtractEntry([title |-> entries[1].title[1],
                                       description |-> entries[1].description[1]]))]

----------------------------------------------------------------------------
(* send_sms and main                                                       *)

PhoneDigits == 10

Gateway == <<"@","t","x","t",".","a","t","t",".","n","e","t">>

\* mutant: the separators are left in the phone number
DigitsOnly_Keep(s) == s

\* re.sub(r'\D', '', phone_number)
DigitsOnly(s) == SelectSeq(s, LAMBDA c : c \in Digits)

\* truthiness of os.environ.get(...): set and not empty
IsSet(v) == v # <<>> /\ v[1] # <<>>

\* line 145
ConfigPresent(e) ==
    IsSet(e.PHONE_NUMBER) /\ IsSet(e.GMAIL_ADDRESS) /\ IsSet(e.GMAIL_APP_PASSWORD)

NoFormat == [message |-> <<>>, max_def_len |-> 0, definition |-> <<>>]

\* lines 141-155: read and validate the configuration
Main_Validate ==
    /\ pc = "main"
    /\ steps' = Append(steps, "validate")
    /\ IF ~ ConfigPresent(env)
       THEN /\ pc' = "failed"
            /\ error' = "ValueError"
            /\ UNCHANGED phone_number
       ELSE /\ phone_number' = DigitsOnly(env.PHONE_NUMBER[1])
            /\ IF Len(phone_number') # PhoneDigits
               THEN pc' = "failed" /\ error' = "ValueError"
               ELSE pc' = "fetch" /\ UNCHANGED error
    /\ UNCHANGED <<env, feed, word_data, message, fmt, sent>>

\* mutant: the exception of the extraction is swallowed and the run goes on
Main_GetWord_Swallow ==
    /\ pc = "fetch"
    /\ steps' = Append(steps, "extract")
    /\ LET r == get_word_of_the_day(feed)
       IN IF r.raised # "none"
          THEN pc' = "send" /\ UNCHANGED <<word_data, error>>
          ELSE pc' = "format" /\ word_data' = r.value /\ UNCHANGED error
    /\ UNCHANGED <<env, phone_number, feed, message, fmt, sent>>

\* line 159: word_data = get_word_of_the_day()
Main_GetWord ==
    /\ pc = "fetch"
    /\ steps' = Append(steps, "extract")
    /\ LET r == get_word_of_the_day(feed)
       IN IF r.raised # "none"
          THEN pc' = "failed" /\ error' = r.raised /\ UNCHANGED word_data
          ELSE pc' = "format" /\ word_data' = r.value /\ UNCHANGED error
    /\ UNCHANGED <<env, phone_number, feed, message, fmt, sent>>

\* line 163: message = format_sms_message(word_data)
Main_Format ==
    /\ pc = "format"
    /\ steps' = Append(steps, "format")
    /\ fmt' = format_sms_message(word_data[1])
    /\ message' = fmt'.message
    /\ pc' = "send"
    /\ UNCHANGED <<env, phone_number, feed, word_data, sent, error>>

\* lines 118-134: the mail handed to the SMTP server
send_sms(msg, phone, gmail_address, gmail_password) ==
    [to |-> phone \o Gateway, from |-> gmail_address,
     login |-> <<gmail_address, gmail_password>>, body |-> msg]

\* line 166: send_sms(...); the SMTP session completes or raises
Main_Send ==
    /\ pc = "send"
    /\ steps' = Append(steps, "send")
    /\ sent' = Append(sent, send_sms(message, phone_number,
                                     env.GMAIL_ADDRESS[1], env.GMAIL_APP_PASSWORD[1]))
    /\ \/ pc' = "done" /\ UNCHANGED error
       \/ pc' = "failed" /\ error' = "SMTPException"
    /\ UNCHANGED <<env, phone_number, feed, word_data, message, fmt>>

----------------------------------------------------------------------------
(* Inputs: environments, feeds and word records                            *)

\* n copies of the character c
Rep(c, n) == [i \in 1..n |-> c]

MaxPhoneDigits == 11

DigitCycle == <<"1","2","3","4","5","6","7","8","9","0">>

PlainPhone(n) == [i \in 1..n |-> DigitCycle[((i - 1) % 10) + 1]]

\* the same digits written 555-123-...
RECURSIVE Dashed(_)
Dashed(s) == IF Len(s) <= 3 THEN s ELSE SubSeq(s, 1, 3) \o <<"-">> \o Dashed(From(s, 4))

Phones == {PlainPhone(n) : n \in 0..MaxPhoneDigits}
            \cup {Dashed(PlainPhone(n)) : n \in 4..MaxPhoneDigits}
            \cup {<<"n", "/", "a">>}

\* an environment variable: unset (<<>>) or set to a text (<<text>>)
Setting(texts) == {<<>>} \cup {Some(t) : t \in texts}

Envs == [PHONE_NUMBER : Setting(Phones),
         GMAIL_ADDRESS : Setting({<<>>, <<"a", "@", "g">>}),
         GMAIL_APP_PASSWORD : Setting({<<>>, <<"p", "w">>})]

ValidEnv == [PHONE_NUMBER |-> Some(Dashed(PlainPhone(PhoneDigits))),
             GMAIL_ADDRESS |-> Some(<<"a", "@", "g">>),
             GMAIL_APP_PASSWORD |-> Some(<<"p", "w">>)]

\* Feed descriptions are assembled from fragments of the feed's markup:
\*   pronunciation and part of speech, a first paragraph (opening tag,
\*   emphasized headword, text, closing tag), a second paragraph, an example.
FillLen == 29

\* a text of FillLen + 1 characters that mentions the headword "w"
LongText == <<"w">> \o Rep("x", FillLen)

Leads == { <<>>,
           <<"\\", "x", "\\", " ", "<", "e", "m", ">", "n", "<", "/", "e", "m", ">", " ">>,
           <<"\\", "\\", " ", "<", "e", "m", ">", "n", "<", "/", "e", "m", ">">>,
           <<"\\", "x", "\\", "<", "e", "m", ">", "n", " ", "<", "/", "e", "m", ">">> }

Opens == { <<>>, OpenP, <<"<", "P", ">">> }

Emphs == { <<>>,
           <<"<", "e", "m", ">", "W", "<", "/", "e", "m", ">", " ">>,
           <<"<", "e", "m", ">", "w", "<", "/", "e", "m", ">">> }

Texts == { <<>>,
           <<"x">>,
           <<"x", " ", "<", "b", ">", "y", "<", "/", "b", ">", ".">>,
           <<"&", "l", "t", ";", "b", "&", "g", "t", ";">>,
           LongText,
           LongText \o <<".">>,
           SeeTheEntry \o <<" ">> \o LongText,
           ExamplesLabel \o LongText,
           <<"/", "/">> \o LongText }

Closes == { <<>>, CloseP }

Seconds == { <<>>,
             OpenP \o <<"W">> \o LongText \o CloseP,
             <<"<", "p", ">", "<", "e", "m", ">", "w", "<", "/", "e", "m", ">", " ", "y", "<", "/", "p", ">">> }

Trails == { <<>>,
            <<"/", "/", " ", "x", ".">>,
            <<"/", "/", " ", "&", "l", "t", ";", "x", ".", ".", " ">>,
            <<"/", "/", "<">>,
            <<"/", "/", " ", "<", "b", ">">> }

Descriptions ==
    { l \o o \o e \o t \o c \o s \o r :
        l \in Leads, o \in Opens, e \in Emphs, t \in Texts, c \in Closes,
        s \in Seconds, r \in Trails }

Titles == { <<>>, <<"w">>, <<" ", "w", "\n">> }

\* the feeds of a whole run: empty, incomplete, blank title, structured, plain
SmallFeeds ==
    { <<>>,
      <<[title |-> <<>>, description |-> Some(<<"x">>)]>>,
      <<[title |-> Some(<<"w">>), description |-> <<>>]>>,
      <<[title |-> Some(<<" ">>), description |-> Some(<<"x">>)]>>,
      <<[title |-> Some(<<"w">>), description |-> Some(<<"x">>)]>>,
      <<[title |-> Some(<<"w">>), description |-> Some(
              <<"\\", "x", "\\", " ", "<", "e", "m", ">", "n", "<", "/", "e", "m", ">", " ", "<", "p", ">", "<", "e", "m", ">", "W", "<", "/", "e", "m", ">", " ", "x", ".", "<", "/", "p", ">", "/", "/", " ", "x", ".">>)]>> }

Entries == [title : {Some(t) : t \in Titles}, description : {Some(d) : d \in Descriptions}]

\* Word records for format_sms_message: texts of chosen lengths around the
\* two caps.  A word of DefCap - Len(Header) - 2 = 101 characters leaves no
\* room at all for the definition.
MaxShortWord == 2

MaxSlack == 4

WordCycle == <<"w", "O", "r", "-", "d">>

DefCycle == <<"a", "b", "c", " ", "d", "e", "f">>

WordText(n) == [i \in 1..n |-> WordCycle[((i - 1) % 5) + 1]]

DefText(n) == [i \in 1..n |-> DefCycle[((i - 1) % 7) + 1]]

\* a quoted sentence of n characters (n >= 3), or no example (n = 0)
ExampleText(n) == IF n = 0 THEN <<>> ELSE <<"\"">> \o Rep("e", n - 3) \o <<".", "\"">>

NoRoom == DefCap - Len(Header) - Len(BlankLine)

WordLens == (0..MaxShortWord) \cup ((NoRoom - MaxSlack)..(NoRoom + MaxSlack))

PosTexts == { <<>>, <<"n", "o", "u", "n">> }

DefLens == (0..(MaxSlack + 3)) \cup ((NoRoom - MaxShortWord - 8)..(NoRoom + 1))

ExampleLens == {0, 3} \cup ((MsgCap - DefCap - 1)..(MsgCap - DefCap + MaxSlack))

Records == { [word |-> WordText(w), part_of_speech |-> p,
              definition |-> DefText(d), example |-> ExampleText(x)] :
             w \in WordLens, p \in PosTexts, d \in DefLens, x \in ExampleLens }

----------------------------------------------------------------------------
(* Specifications                                                          *)

\* main() is entered with an environment; the feed is what the fetch will see
Init ==
    /\ pc = "main"
    /\ env \in Envs
    /\ feed \in SmallFeeds
    /\ phone_number = <<>>
    /\ word_data = <<>>
    /\ message = <<>>
    /\ fmt = NoFormat
    /\ sent = <<>>
    /\ error = "none"
    /\ steps = <<>>

Next == Main_Validate \/ Main_GetWord \/ Main_Format \/ Main_Send

Spec == Init /\ [][Next]_vars

\* get_word_of_the_day over the family of feed entries, configuration valid
InitExtract ==
    /\ pc = "fetch"
    /\ env = ValidEnv
    /\ feed \in SmallFeeds \cup {<<e>> : e \in Entries}
    /\ phone_number = DigitsOnly(ValidEnv.PHONE_NUMBER[1])
    /\ word_data = <<>>
    /\ message = <<>>
    /\ fmt = NoFormat
    /\ sent = <<>>
    /\ error = "none"
    /\ steps = <<"validate">>

SpecExtract == InitExtract /\ [][Main_GetWord]_vars

\* format_sms_message over the family of word records
InitFormat ==
    /\ pc = "format"
    /\ env = ValidEnv
    /\ feed = <<>>
    /\ phone_number = DigitsOnly(ValidEnv.PHONE_NUMBER[1])
    /\ word_data \in {Some(r) : r \in Records}
    /\ message = <<>>
    /\ fmt = NoFormat
    /\ sent = <<>>
    /\ error = "none"
    /\ steps = <<"validate", "extract">>

SpecFormat == InitFormat /\ [][Main_Format]_vars

----------------------------------------------------------------------------
(* Properties of format_sms_message (SpecFormat)                           *)

\* the step has been executed in this run
Did(step) == \E i \in 1..Len(steps) : steps[i] = step

\* the text that precedes the definition, written out from the message layout
HeadOf(wd) ==
    Header \o [i \in 1..Len(wd.word) |-> UpperChar(wd.word[i])] \o <<"\n", "\n">>
        \o (IF wd.part_of_speech = <<>> THEN <<>>
            ELSE <<"(">> \o wd.part_of_speech \o <<")", " ">>)

CapOf(wd) == DefCap - Len(HeadOf(wd))

\* C3 (as claimed): for every word record the inserted definition segment is
\* no longer than cap = 120 - length(header + part-of-speech prefix), and a
\* definition longer than the cap is inserted as its first cap-3 characters
\* followed by "...".  Fails once the word leaves a cap below 3.
C3_SegmentWithinCap ==
    Did("format") =>
        LET wd == word_data[1]
            cap == CapOf(wd)
        IN /\ fmt.max_def_len = cap
           /\ Len(fmt.definition) <= cap
           /\ Len(wd.definition) > cap =>
                 fmt.definition = SubSeq(wd.definition, 1, cap - 3) \o <<".", ".", ".">>

\* C5: the message begins with "Word of the Day: ", the upper-cased word and
\* a blank line; "(" + part_of_speech + ") " follows exactly when the part of
\* speech is non-empty; the definition segment comes directly after.
C5_MessageLayout ==
    Did("format") =>
        LET wd == word_data[1]
            n == Len(wd.word)
            p == Len(wd.part_of_speech)
            at == IF p = 0 THEN 20 + n ELSE 23 + n + p
        IN /\ SubSeq(message, 1, 17) = Header
           /\ \A i \in 1..n : message[17 + i] = UpperChar(wd.word[i])
           /\ message[18 + n] = "\n" /\ message[19 + n] = "\n"
           /\ p > 0 => /\ message[20 + n] = "("
                       /\ SubSeq(message, 21 + n, 20 + n + p) = wd.part_of_speech
                       /\ message[21 + n + p] = ")"
                       /\ message[22 + n + p] = " "
           /\ Len(message) >= at - 1 + Len(fmt.definition)
           /\ SubSeq(message, at, at - 1 + Len(fmt.definition)) = fmt.definition

C5_Witness ==
    /\ Did("format")
    /\ word_data[1].part_of_speech # <<>>
    /\ Upper(word_data[1].word) # word_data[1].word
    /\ fmt.definition # <<>>
    /\ fmt.definition # word_data[1].definition

\* C6: a blank line and the example are appended if and only if the example
\* is non-empty and length(header + prefix + inserted definition) +
\* length(example) < 300; otherwise the message ends with the definition.
C6_ExampleRule ==
    Did("format") =>
        LET wd == word_data[1]
            body == HeadOf(wd) \o fmt.definition
        IN IF wd.example # <<>> /\ Len(body) + Len(wd.example) < 300
           THEN message = body \o <<"\n", "\n">> \o wd.example
           ELSE message = body

\* an example that fits by one character, after a truncated definition
C6_Witness ==
    /\ Did("format")
    /\ word_data[1].example # <<>>
    /\ Len(HeadOf(word_data[1]) \o fmt.definition) + Len(word_data[1].example) = 299
    /\ Len(message) = 301
    /\ fmt.definition # word_data[1].definition

----------------------------------------------------------------------------
(* Properties of the run of main() (Spec)                                  *)

PipelineOrder == <<"validate", "extract", "format", "send">>

\* the feed has no entry, or its first entry lacks the title or description
NothingToExtract ==
    feed = <<>> \/ feed[1].title = <<>> \/ feed[1].description = <<>>

DigitCount(s) == Cardinality({i \in 1..Len(s) : s[i] \in Digits})

\* all three settings present and non-empty, ten digits in the phone number
ConfigValid(e) ==
    /\ \A k \in {"PHONE_NUMBER", "GMAIL_ADDRESS", "GMAIL_APP_PASSWORD"} :
          e[k] # <<>> /\ Len(e[k][1]) > 0
    /\ DigitCount(e.PHONE_NUMBER[1]) = 10

\* C10: fetching, formatting and sending happen only after the configuration
\* passed validation; an invalid configuration makes main fail with an error
\* before any of them; send is invoked at most once, to exactly 10 digits.
C10_ValidatedFirst ==
    /\ (Did("extract") \/ Did("format") \/ Did("send")) =>
          ConfigValid(env) /\ steps[1] = "validate"
    /\ (Did("validate") /\ ~ ConfigValid(env)) =>
          /\ pc = "failed"
          /\ error = "ValueError"
          /\ steps = <<"validate">>
          /\ word_data = <<>> /\ message = <<>> /\ sent = <<>>
    /\ Len(sent) <= 1
    /\ \A i \in 1..Len(sent) :
          /\ Did("send")
          /\ Len(sent[i].to) = 10 + Len(Gateway)
          /\ \A k \in 1..10 : sent[i].to[k] \in Digits
          /\ SubSeq(sent[i].to, 11, Len(sent[i].to)) = Gateway
          /\ sent[i].body = message

\* a completed run whose phone number was written with separators
C10_Witness ==
    /\ pc = "done"
    /\ Len(sent) = 1
    /\ Len(env.PHONE_NUMBER[1]) > 10

----------------------------------------------------------------------------
(* Properties of get_word_of_the_day (SpecExtract)                         *)

\* the first entry of the feed carries both a title and a description
EntryRead == feed # <<>> /\ feed[1].title # <<>> /\ feed[1].description # <<>>

TitleOf == feed[1].title[1]

DescriptionOf == feed[1].description[1]

IsBlank(t) == \A i \in 1..Len(t) : IsSpace(t[i])

\* w is t without its leading and trailing blanks
IsTrimOf(w, t) ==
    /\ w = <<>> \/ (~ IsSpace(w[1]) /\ ~ IsSpace(w[Len(w)]))
    /\ \E a \in 0..Len(t) :
          /\ a + Len(w) <= Len(t)
          /\ SubSeq(t, a + 1, a + Len(w)) = w
          /\ \A i \in 1..a : IsSpace(t[i])
          /\ \A i \in (a + Len(w) + 1)..Len(t) : IsSpace(t[i])

\* C1 (as claimed): an entry whose title is empty or only whitespace makes
\* the extraction fail instead of returning a word record.
C1_BlankTitleFails ==
    (Did("extract") /\ EntryRead /\ IsBlank(TitleOf)) =>
        /\ error # "none"
        /\ word_data = <<>>
        /\ pc = "failed"

\* a record was returned for the first entry
Extracted == Did("extract") /\ EntryRead /\ word_data # <<>>

\* ... and the entry had a headword
ExtractedWord == Extracted /\ ~ IsBlank(TitleOf)

\* the <p>...</p> paragraphs of the description, cleaned, in order
CleanParagraphs(d) == LET ps == Paragraphs(d) IN [k \in 1..Len(ps) |-> Clean(ps[k])]

\* C2: for an entry with a non-empty title and any description the
\* extraction returns a record whose word is the trimmed title and raises
\* nothing; a part of speech, a definition or an example that cannot be
\* found is the empty string, each whatever the other two are.
C2_AlwaysARecord ==
    (Did("extract") /\ EntryRead /\ TitleOf # <<>>) =>
        /\ error = "none"
        /\ pc = "format"
        /\ word_data # <<>>
        /\ IsTrimOf(word_data[1].word, TitleOf)
        /\ PosSearch(DescriptionOf) = NoMatch => word_data[1].part_of_speech = <<>>
        /\ ExampleSearch(DescriptionOf) = NoMatch => word_data[1].example = <<>>
        /\ LET cps == CleanParagraphs(DescriptionOf)
           IN (/\ DefSearch(DescriptionOf, word_data[1].word) = NoMatch
               /\ \A k \in 1..Len(cps) : ~ IsDefinitionLike(cps[k], word_data[1].word))
                 => word_data[1].definition = <<>>

\* a padded title, no part of speech, but a definition and an example
C2_Witness ==
    /\ ExtractedWord
    /\ IsSpace(TitleOf[1])
    /\ word_data[1].part_of_speech = <<>>
    /\ word_data[1].definition # <<>>
    /\ word_data[1].example # <<>>


\* C7 (as claimed): the definition is (1) the text after an emphasized copy
\* of the headword in a paragraph, else (2) the first paragraph that names
\* the headword, is no cross-reference, no example, and is long enough, else
\* (3) the first 200 characters of the whole cleaned description.
\* Stated for the entries that have a headword.
C7_ThreeStepChain ==
    ExtractedWord =>
        LET d == DescriptionOf
            w == word_data[1].word
            m == DefSearch(d, w)
            cps == CleanParagraphs(d)
            good == {k \in 1..Len(cps) : IsDefinitionLike(cps[k], w)}
        IN /\ m # NoMatch => word_data[1].definition = Capitalize(Clean(m[1]))
           /\ (m = NoMatch /\ good # {}) =>
                 \E k \in good : /\ \A j \in good : k <= j
                                 /\ word_data[1].definition = cps[k]
           /\ (m = NoMatch /\ good = {}) =>
                 word_data[1].definition = SubSeq(Clean(d), 1, IF Len(Clean(d)) < 200
                                                                THEN Len(Clean(d)) ELSE 200)

\* C7 (amended): steps (1) and (2) as claimed; when no paragraph qualifies
\* the definition is the empty string, whatever the description holds.
C7_TwoStepChain ==
    Extracted =>
        LET d == DescriptionOf
            w == word_data[1].word
            m == DefSearch(d, w)
            cps == CleanParagraphs(d)
            good == {k \in 1..Len(cps) : IsDefinitionLike(cps[k], w)}
        IN /\ m # NoMatch => word_data[1].definition = Capitalize(Clean(m[1]))
           /\ (m = NoMatch /\ good # {}) =>
                 \E k \in good : /\ \A j \in good : k <= j
                                 /\ word_data[1].definition = cps[k]
           /\ (m = NoMatch /\ good = {}) => word_data[1].definition = <<>>

\* no emphasized headword, two qualifying paragraphs: the first one is taken
C7_Witness ==
    /\ ExtractedWord
    /\ DefSearch(DescriptionOf, word_data[1].word) = NoMatch
    /\ LET cps == CleanParagraphs(DescriptionOf)
       IN /\ Len(cps) = 2
          /\ IsDefinitionLike(cps[1], word_data[1].word)
          /\ IsDefinitionLike(cps[2], word_data[1].word)
          /\ cps[1] # cps[2]
          /\ word_data[1].definition = cps[1]

\* a tag <...> occurs in the text
HasTag(s) ==
    \E i \in 1..Len(s) : \E j \in (i + 2)..Len(s) :
        s[i] = "<" /\ s[j] = ">" /\ \A k \in (i + 1)..(j - 1) : s[k] # ">"

\* C8 (as claimed): a non-empty definition, from either matcher, starts with
\* an upper-cased character and holds no markup tag (a "<b>" that a decoded
\* entity spells is text, not markup).  Stated for the entries that have a
\* headword.
C8_DefinitionIsClean ==
    (ExtractedWord /\ word_data[1].definition # <<>>) =>
        /\ ~ IsLower(word_data[1].definition[1])
        /\ ~ Contains(DescriptionOf, <<"&">>) => ~ HasTag(word_data[1].definition)

\* one trailing period removed, when there is one
DropOnePeriod(s) == IF s # <<>> /\ s[Len(s)] = "." THEN SubSeq(s, 1, Len(s) - 1) ELSE s

HasMarker(d) == \E i \in 1..(Len(d) - 1) : d[i] = "/" /\ d[i + 1] = "/"

====
